---- MODULE Spec2Model ----
(***************************************************************************)
(* Verification model of auto-mograph-bot's batch core:                    *)
(*   - runner/scheduler.py  GenerationScheduler (ledger, dedup, run loop)  *)
(*   - runner/locks.py      FileLock                                       *)
(*   - sd/txt2img.py        with_retry, classify_sd_error                  *)
(*   - video/ffmpeg_utils.py run_ffmpeg, classify_ffmpeg                   *)
(*   - runner/job.py        GenerationJob.run                              *)
(*   - system/gpu_probe.py  get_gpu_info                                   *)
(* The specifications of the module: Spec (one scheduler and one run()     *)
(* with its worker threads), SpecLedger (ledger load / append / reload),   *)
(* SpecDecide (the concurrency decision of run()), SpecDecideAny (the same *)
(* decision for settings and core counts of any sign), SpecRetry (one call *)
(* through with_retry), SpecFfmpeg (one call of run_ffmpeg), SpecWrappers  *)
(* (one call through either wrapper), SpecJob (one call of                 *)
(* GenerationJob.run), SpecProbe (one call of get_gpu_info), SpecAppend    *)
(* (concurrent calls of _append_index) and SpecSection (the workers of a   *)
(* batch in the guarded section of _run_single).                           *)
(***************************************************************************)
EXTENDS Integers, Sequences, FiniteSets, TLC

VARIABLES
    \* ---- GenerationScheduler and its index file
    ledger,            \* content of config.scheduler.index_file, a sequence of text tokens
    ledger0,           \* the content the file had before the first scheduler was constructed
    schedState,        \* "new" | "ready" | "ctor_raised" | "reloaded" | "reload_raised"
    completed_hashes,  \* self.completed_hashes
    appended,          \* hashes written by _append_index since construction (history)
    \* ---- one call of GenerationScheduler.run
    runState,          \* "idle" | "running" | "raising" | "returned" | "raised"
    count,             \* argument of run()
    max_retries,       \* config.scheduler.max_retries
    concurrency,       \* local `concurrency` of run()
    pending,           \* local `pending` of run()
    batch,             \* local `batch` of run(): the jobs of the current pool
    results,           \* local `results` of run()
    pc,                \* position of every job's worker thread
    attempt,           \* loop variable of _run_with_retry, per job
    res,               \* local `result` of _run_single (its file_hash), per job
    exc,               \* exception in flight in the worker, per job
    fut,               \* state of the job's future
    waited,            \* time.time() - start of the pending FileLock.__enter__, per job
    cooldowns,         \* calls of time.sleep(cooldown_sec) made by the job's worker (history)
    lockHolder,        \* which open file description holds the flock on lock_path
    \* ---- the concurrency decision of run()
    dIn,               \* configuration and resource snapshot read by run()
    dOut,              \* the decision
    \* ---- one call through a retry wrapper: with_retry, or run_ffmpeg
    rCfg,              \* the retry configuration of the call
    rPc,               \* with_retry: "idle" | "call" | "sleep" | "returned" | "raised";
                       \* run_ffmpeg: the same positions with the prefix "ff_"
    rAttempt,          \* loop variable `attempt`
    rDelay,            \* local `delay`, in milliseconds
    rTrace,            \* outcome of every invocation so far (history)
    rSleeps,           \* every time.sleep argument so far, in milliseconds (history)
    rCodes,            \* run_ffmpeg: exit code of every invocation so far (history)
    rRaised,           \* the exception that left the wrapper
    rEvents,           \* events passed to log_event / log_exception by the wrapper, in order (history)
    \* ---- one call of GenerationJob.run
    jCfg,              \* config.video.cover_export
    jPc,               \* the step run() is about to execute, "returned" or "raised"
    jLoc,              \* locals of run(): candidate, cover_path, file_hash
    jOut,              \* what left run(): the JobResult or the exception
    \* ---- one call of get_gpu_info
    gIn,               \* what nvidia-smi and torch do when asked
    gPc,               \* "idle" | "smi" | "torch" | "returned" | "raised"
    gOut,              \* the snapshot returned, or the stage whose exception left the call
    \* ---- concurrent calls of _append_index, one per writer thread
    wRec,              \* file_hash of the record each writer appends
    wPc,               \* "call" | "open" | "written" | "closed", per writer
    wBuf,              \* pending write(2) calls of each writer's file object
    \* ---- the guarded section of _run_single, job.run step by step
    sPc,               \* "acquire" | a step of job.run | "returned" | "raised" | "timed_out", per worker
    sHolder            \* which worker's open file description holds the flock on lock_path

ledgerVars == <<ledger, ledger0, schedState, completed_hashes, appended>>
runVars    == <<runState, count, max_retries, concurrency, pending, batch, results,
                pc, attempt, res, exc, fut, waited, cooldowns, lockHolder>>
decideVars == <<dIn, dOut>>
retryVars  == <<rCfg, rPc, rAttempt, rDelay, rTrace, rSleeps, rCodes, rRaised, rEvents>>
jobVars    == <<jCfg, jPc, jLoc, jOut>>
probeVars  == <<gIn, gPc, gOut>>
appendVars == <<wRec, wPc, wBuf>>
sectionVars == <<sPc, sHolder>>
vars       == <<ledgerVars, runVars, decideVars, retryVars, jobVars, probeVars, appendVars,
                sectionVars>>

----------------------------------------------------------------------------
(* Bounds of the model *)

\* longest index file drawn as prior content in SpecLedger, in tokens
MaxFileLen == 3
\* most records one scheduler appends in SpecLedger
MaxAppends == 2
\* largest count handed to run()
MaxCount == 2
\* largest config.scheduler.max_retries
MaxRetries == 1
\* FileLock timeout, in poll intervals
TimeoutTicks == 1
\* largest config.scheduler.concurrency and largest detected core count
MaxRequested == 3
MaxCores == 3
\* largest max_attempts, backoff_factor and jitter_ms handed to with_retry
MaxAttempts == 3
MaxBackoff == 2
MaxJitterMs == 2

Min(a, b) == IF a < b THEN a ELSE b
Max(a, b) == IF a > b THEN a ELSE b

\* content hashes of artifacts; "" is JobResult.file_hash of an unhashed artifact
Hashes   == {"a", "b"}
HashVals == Hashes \cup {""}

----------------------------------------------------------------------------
(* The index file.  The file is a sequence of text tokens:                 *)
(*   nl       the newline character                                        *)
(*   obj(h)   the JSON text of an object with "hash": h                    *)
(*   nohash   the JSON text of an object without a "hash" member           *)
(*   garbage  text that is not JSON and no part of a JSON document         *)
(*            (a torn write, an editor's leftovers)                        *)
(*   null     the JSON text null (valid JSON, not a container)             *)
(*   arrhash  the JSON text ["hash"] (valid JSON, a list holding "hash")   *)
(* A missing file and an empty file are both <<>>: _load_existing_hashes   *)
(* returns the empty set for both, and open(.., "a") creates the file.     *)

Tok(k, h) == [k |-> k, h |-> h]
NL        == Tok("nl", "")
Obj(h)    == Tok("obj", h)
Tokens    == {NL, Tok("nohash", ""), Tok("garbage", ""), Tok("null", ""), Tok("arrhash", "")}
                 \cup {Obj(h) : h \in HashVals}

\* `for line in fp`: the file cut after every newline; a last piece without a
\* newline is a line too.  Each line is its tokens without the newline.
RECURSIVE SplitLines(_, _)
SplitLines(file, cur) ==
    IF file = << >> THEN (IF cur = << >> THEN << >> ELSE <<cur>>)
    ELSE IF Head(file) = NL THEN <<cur>> \o SplitLines(Tail(file), << >>)
    ELSE SplitLines(Tail(file), Append(cur, Head(file)))

\* json.loads(line): "error" is json.JSONDecodeError.  An empty line and any text
\* made of two tokens ("Extra data", or garbage) do not decode.
JsonLoads(line) ==
    IF Len(line) # 1 THEN [k |-> "error", h |-> ""]
    ELSE IF line[1].k = "garbage" THEN [k |-> "error", h |-> ""]
    ELSE line[1]

\* Body of the loop of _load_existing_hashes for one line: the new `hashes`, or
\* "raise" when an exception other than JSONDecodeError leaves the try block
\* (`"hash" in None` and `["hash"]["hash"]` raise TypeError).
LoadLine(hashes, line) ==
    LET record == JsonLoads(line) IN
    CASE record.k = "error"   -> [raised |-> FALSE, hashes |-> hashes]
      [] record.k = "obj"     -> [raised |-> FALSE, hashes |-> hashes \cup {record.h}]
      [] record.k = "nohash"  -> [raised |-> FALSE, hashes |-> hashes]
      [] record.k = "null"    -> [raised |-> TRUE,  hashes |-> hashes]
      [] record.k = "arrhash" -> [raised |-> TRUE,  hashes |-> hashes]

RECURSIVE LoadLines(_, _)
LoadLines(hashes, lines) ==
    IF lines = << >> THEN [raised |-> FALSE, hashes |-> hashes]
    ELSE LET r == LoadLine(hashes, Head(lines)) IN
         IF r.raised THEN r ELSE LoadLines(r.hashes, Tail(lines))

\* GenerationScheduler._load_existing_hashes
LoadExistingHashes(file) == LoadLines({}, SplitLines(file, << >>))

\* GenerationScheduler._append_index: one write of json.dumps(record) + "\n"
AppendIndex(file, h) == file \o <<Obj(h), NL>>

\* GenerationScheduler.__init__
Construct ==
    /\ schedState = "new"
    /\ LET r == LoadExistingHashes(ledger) IN
         IF r.raised
           THEN /\ schedState' = "ctor_raised"
                /\ completed_hashes' = {}
           ELSE /\ schedState' = "ready"
                /\ completed_hashes' = r.hashes
    /\ UNCHANGED <<ledger, ledger0, appended, runVars, decideVars, retryVars, jobVars, probeVars, appendVars, sectionVars>>

----------------------------------------------------------------------------
(* The concurrency decision of GenerationScheduler.run *)

\* a wrong decision: the memory test forgets the requested concurrency
EffectiveConcurrencyNoScale(cfg_concurrency, hard_serial, min_free_vram_mb, free_memory, total_memory, cores) ==
    LET requested_concurrency == Max(1, cfg_concurrency)
        cpu_cores == Max(1, cores)
    IN IF hard_serial /\ (total_memory <= 0 \/ free_memory < min_free_vram_mb)
         THEN 1
         ELSE Min(requested_concurrency, cpu_cores)

\* a wrong decision: the configured concurrency and the core count are used as they come
EffectiveConcurrencyNoClamp(cfg_concurrency, hard_serial, min_free_vram_mb, free_memory, total_memory, cores) ==
    IF hard_serial /\ (total_memory <= 0 \/ free_memory < min_free_vram_mb * cfg_concurrency)
      THEN 1
      ELSE Min(cfg_concurrency, cores)

\* run(), from `requested_concurrency = max(1, ...)` to the end of the if/else
EffectiveConcurrency(cfg_concurrency, hard_serial, min_free_vram_mb, free_memory, total_memory, cores) ==
    LET requested_concurrency == Max(1, cfg_concurrency)
        cpu_cores == Max(1, cores)
    IN IF hard_serial /\ (total_memory <= 0
                          \/ free_memory < min_free_vram_mb * requested_concurrency)
         THEN 1
         ELSE Min(requested_concurrency, cpu_cores)

\* resource snapshots (MB, scaled down) and scheduler settings read by run()
MemoryPairs == {<<0, 0>>, <<8, 0>>, <<8, 2>>, <<8, 5>>, <<8, 8>>}   \* <<total, free>>
DecideInputs ==
    [concurrency : 1..MaxRequested, hard_serial : BOOLEAN, min_free_vram_mb : {0, 3},
     mem : MemoryPairs, cores : 1..MaxCores]

\* get_cpu_cores: the physical core count of psutil when it is truthy, else
\* os.cpu_count() or 1; 0 stands for None (or a missing psutil module)
GetCpuCores(psutil_count, os_count) ==
    IF psutil_count # 0 THEN psutil_count ELSE IF os_count # 0 THEN os_count ELSE 1

\* the inputs of the decision when nothing validated the settings and the
\* counts reported by psutil and os are arbitrary
AnyDecideInputs ==
    { [concurrency |-> c, hard_serial |-> h, min_free_vram_mb |-> v, mem |-> m,
       cores |-> GetCpuCores(p, o)] :
         c \in (-1)..MaxRequested, h \in BOOLEAN, v \in {0, 3}, m \in MemoryPairs,
         p \in (-1)..MaxCores, o \in 0..MaxCores }

Decide(in) ==
    EffectiveConcurrency(in.concurrency, in.hard_serial, in.min_free_vram_mb,
                         in.mem[2], in.mem[1], in.cores)

\* run() up to log_resource_snapshot, with its inputs kept for inspection
DecideConcurrency ==
    /\ dOut = 0
    /\ dIn \in DecideInputs \cup AnyDecideInputs
    /\ dOut' = Decide(dIn)
    /\ UNCHANGED <<dIn, ledgerVars, runVars, retryVars, jobVars, probeVars, appendVars, sectionVars>>

----------------------------------------------------------------------------
(* sd/txt2img.py: classify_sd_error and with_retry *)

\* Exceptions the wrapped call raises: the httpx class (or "Exception"), the
\* status of an HTTPStatusError, and the marker substrings of str(err).lower().
Err(type, status, msg) == [type |-> type, status |-> status, msg |-> msg]
SdErrors ==
    { Err("TimeoutException", 0, {}),
      Err("ConnectError", 0, {}),
      Err("RequestError", 0, {}),
      Err("HTTPStatusError", 400, {}),
      Err("HTTPStatusError", 408, {"timeout"}),
      Err("HTTPStatusError", 429, {}),
      Err("HTTPStatusError", 503, {}),
      Err("Exception", 0, {"cuda", "memory"}),
      Err("Exception", 0, {"unauthorized"}),
      Err("Exception", 0, {}) }

\* httpx.TimeoutException and httpx.ConnectError derive from httpx.RequestError;
\* httpx.HTTPStatusError does not.
IsRequestError(err) == err.type \in {"RequestError", "TimeoutException", "ConnectError"}

\* classify_sd_error: the category (the hint is a fixed text per category)
classify_sd_error(err) ==
    IF err.type = "TimeoutException" \/ "timeout" \in err.msg THEN "timeout"
    ELSE IF err.type = "ConnectError" \/ "connection refused" \in err.msg THEN "conn_error"
    ELSE IF err.type = "HTTPStatusError" /\ err.status = 429 THEN "rate_limited"
    ELSE IF err.type = "HTTPStatusError" /\ 500 <= err.status /\ err.status < 600 THEN "http_5xx"
    ELSE IF err.type = "HTTPStatusError" /\ 400 <= err.status /\ err.status < 500 THEN "bad_request"
    ELSE IF IsRequestError(err) THEN "conn_error"
    ELSE IF "out of memory" \in err.msg \/ ("cuda" \in err.msg /\ "memory" \in err.msg) THEN "oom"
    ELSE IF "unauthorized" \in err.msg \/ "401" \in err.msg THEN "auth_error"
    ELSE "unknown"

\* _normalize_retry_cfg followed by the wrapper's own max(...) of each field
NormalizeRetryCfg(raw) ==
    [max_attempts   |-> Max(1, raw.max_attempts),
     backoff_factor |-> Max(1, raw.backoff_factor),
     jitter_ms      |-> Max(0, raw.jitter_ms)]

RetryCfgs == [max_attempts : 0..MaxAttempts, backoff_factor : 0..MaxBackoff,
              jitter_ms : 0..MaxJitterMs]

\* `delay = 1.0` (seconds), in milliseconds
BaseDelayMs == 1000

\* a wrong backoff: the delay grows by addition
NextDelayAdd(delay, backoff) == delay + backoff

\* `delay *= backoff`
NextDelay(delay, backoff) == delay * backoff

\* `random.randint(0, jitter_ms) / 1000.0 if jitter_ms else 0.0`, in milliseconds
JitterChoices(jitter_ms) == IF jitter_ms > 0 THEN 0..jitter_ms ELSE {0}

\* The exception that leaves a wrapper: the invocation whose failure it reports
\* and its kind.  "reraised" is the exception of fn itself (a bare `raise`),
\* "exit_code" and "not_found" are the RuntimeErrors run_ffmpeg builds for the
\* invocation at hand, "exhausted" is the RuntimeError after the loop.
Raised(invocation, kind) == [invocation |-> invocation, kind |-> kind]
NotRaised == Raised(0, "none")

\* a wrong test: the wrapper gives up one invocation late
LastAttemptLate(n, attempts) == n > attempts

\* `if attempt >= attempts: raise`, for attempt n
LastAttempt(n, attempts) == n >= attempts

\* an event handed to the structured log: "start" | "success" | "fail" |
\* "retry" for sd_call_<type> and ffmpeg_<type>, with its attempt field
Ev(type, n) == [type |-> type, attempt |-> n]

\* the events of pass n of the loop when the invocation fails: start, fail,
\* and retry when the wrapper goes on to sleep
FailEvents(n, again) == <<Ev("start", n), Ev("fail", n)>> \o (IF again THEN <<Ev("retry", n)>> ELSE << >>)

\* the events of pass n of the loop when the invocation succeeds
SuccessEvents(n) == <<Ev("start", n), Ev("success", n)>>

\* wrapper(): reading the configuration, `delay = 1.0`, entering the loop
RetryEnter ==
    /\ rPc = "idle"
    /\ rCfg \in RetryCfgs
    /\ rPc' = "call"
    /\ rAttempt' = 1
    /\ rDelay' = BaseDelayMs
    /\ UNCHANGED <<rCfg, rTrace, rSleeps, rCodes, rRaised, rEvents, ledgerVars, runVars, decideVars, jobVars, probeVars, appendVars, sectionVars>>

\* one pass of the loop in which fn returns
RetryCallReturns ==
    /\ rPc = "call"
    /\ rTrace' = Append(rTrace, "ok")
    /\ rPc' = "returned"
    /\ rEvents' = rEvents \o SuccessEvents(rAttempt)
    /\ UNCHANGED <<rCfg, rAttempt, rDelay, rSleeps, rCodes, rRaised,
                   ledgerVars, runVars, decideVars, jobVars, probeVars, appendVars, sectionVars>>

\* one pass of the loop in which fn raises err: the except block up to time.sleep
RetryCallRaises(err) ==
    /\ rPc = "call"
    /\ rTrace' = Append(rTrace, classify_sd_error(err))
    /\ IF LastAttempt(rAttempt, NormalizeRetryCfg(rCfg).max_attempts)
         THEN /\ rPc' = "raised"
              /\ rRaised' = Raised(rAttempt, "reraised")
              /\ rEvents' = rEvents \o FailEvents(rAttempt, FALSE)
              /\ UNCHANGED rSleeps
         ELSE /\ \E jitter \in JitterChoices(NormalizeRetryCfg(rCfg).jitter_ms) :
                    rSleeps' = Append(rSleeps, rDelay + jitter)
              /\ rPc' = "sleep"
              /\ rEvents' = rEvents \o FailEvents(rAttempt, TRUE)
              /\ UNCHANGED rRaised
    /\ UNCHANGED <<rCfg, rAttempt, rDelay, rCodes, ledgerVars, runVars, decideVars, jobVars, probeVars, appendVars, sectionVars>>

\* time.sleep returns: `delay *= backoff`, next pass
RetrySleepDone ==
    /\ rPc = "sleep"
    /\ rDelay' = NextDelay(rDelay, NormalizeRetryCfg(rCfg).backoff_factor)
    /\ rAttempt' = rAttempt + 1
    /\ rPc' = "call"
    /\ UNCHANGED <<rCfg, rTrace, rSleeps, rCodes, rRaised, rEvents, ledgerVars, runVars, decideVars, jobVars, probeVars, appendVars, sectionVars>>

----------------------------------------------------------------------------
(* video/ffmpeg_utils.py: classify_ffmpeg and run_ffmpeg *)

\* A finished ffmpeg process that failed: its exit code and the marker
\* substrings found in stderr.lower().
Failure(code, stderr) == [code |-> code, stderr |-> stderr]
FfmpegFailures ==
    { Failure(127, {}),
      Failure(1, {"command not found"}),
      Failure(1, {"timed out"}),
      Failure(1, {"device or resource busy"}),
      Failure(1, {"permission denied"}),
      Failure(1, {}),
      Failure(2, {"no such file or directory", "timed out"}),
      Failure(2, {"input/output error"}) }

\* classify_ffmpeg: the category.  The test `"ePIPE" in message` never matches
\* the lower-cased message, so "broken pipe" alone decides broken_pipe.
classify_ffmpeg(stderr, code) ==
    IF code = 127 \/ "command not found" \in stderr THEN "no_ffmpeg"
    ELSE IF "no such file or directory" \in stderr \/ "unable to open" \in stderr
      THEN "file_not_found"
    ELSE IF "permission denied" \in stderr THEN "permission"
    ELSE IF "no space left" \in stderr \/ "disk full" \in stderr THEN "disk_full"
    ELSE IF "codec not found" \in stderr \/ "unknown encoder" \in stderr THEN "codec_missing"
    ELSE IF "device or resource busy" \in stderr
            \/ "resource temporarily unavailable" \in stderr THEN "resource_busy"
    ELSE IF "broken pipe" \in stderr THEN "broken_pipe"
    ELSE IF "connection timed out" \in stderr \/ "timed out" \in stderr THEN "timeout"
    ELSE IF "input/output error" \in stderr THEN "io_error"
    ELSE "unknown"

\* retry configurations of a run_ffmpeg call: `explicit` tells a dict passed as
\* _retry_cfg from the module's _FFMPEG_RETRY_CFG (configure_ffmpeg_retry
\* stores the configured numbers as they are)
RetryableCodeSets == {{}, {1}, {127}}
FfmpegCfgs ==
    [explicit : BOOLEAN, enabled : BOOLEAN, max_attempts : 0..MaxAttempts,
     backoff_factor : {0, MaxBackoff}, jitter_ms : {0, MaxJitterMs},
     retryable_exit_codes : RetryableCodeSets]

\* ffmpeg_utils._normalize_retry_cfg: only a dict passed by the caller is clamped
NormalizeFfmpegCfg(raw) ==
    IF raw.explicit
      THEN [raw EXCEPT !.max_attempts = Max(1, raw.max_attempts),
                       !.backoff_factor = Max(1, raw.backoff_factor),
                       !.jitter_ms = Max(0, raw.jitter_ms)]
      ELSE raw

\* `attempts = 1; if cfg.get("enabled"): attempts = max(1, int(cfg.get("max_attempts", 1)))`
FfmpegAttempts(cfg) == IF cfg.enabled THEN Max(1, cfg.max_attempts) ELSE 1

RetryableCategories == {"timeout", "resource_busy", "broken_pipe", "io_error"}

\* a wrong rule: a missing tool is retried like an unknown failure
ShouldRetryAnyCode(cfg, n, code, category) ==
    /\ cfg.enabled
    /\ n < FfmpegAttempts(cfg)
    /\ (code # 0 \/ category \in RetryableCategories)

\* a wrong rule: the enabled flag is not consulted
ShouldRetryIgnoresEnabled(cfg, n, code, category) ==
    /\ n < Max(1, cfg.max_attempts)
    /\ (code \in cfg.retryable_exit_codes \/ category \in RetryableCategories)

\* `should_retry = cfg.get("enabled") and attempt < attempts and (...)`
ShouldRetry(cfg, n, code, category) ==
    /\ cfg.enabled
    /\ n < FfmpegAttempts(cfg)
    /\ (code \in cfg.retryable_exit_codes \/ category \in RetryableCategories)

\* run_ffmpeg up to the loop: the configuration, `attempts`, `delay = 1.0`
FfmpegEnter ==
    /\ rPc = "ff_idle"
    /\ rCfg \in FfmpegCfgs
    /\ rPc' = "ff_call"
    /\ rAttempt' = 1
    /\ rDelay' = BaseDelayMs
    /\ UNCHANGED <<rCfg, rTrace, rSleeps, rCodes, rRaised, rEvents, ledgerVars, runVars, decideVars, jobVars, probeVars, appendVars, sectionVars>>

\* one pass of the loop in which the process exits with code 0
FfmpegExitZero ==
    /\ rPc = "ff_call"
    /\ rTrace' = Append(rTrace, "ok")
    /\ rCodes' = Append(rCodes, 0)
    /\ rPc' = "ff_returned"
    /\ rEvents' = rEvents \o SuccessEvents(rAttempt)
    /\ UNCHANGED <<rCfg, rAttempt, rDelay, rSleeps, rRaised, ledgerVars, runVars, decideVars, jobVars, probeVars, appendVars, sectionVars>>

\* one pass of the loop in which subprocess.run raises FileNotFoundError (no
\* process, no exit code: -1 in rCodes)
FfmpegNotFound ==
    /\ rPc = "ff_call"
    /\ rTrace' = Append(rTrace, "no_ffmpeg")
    /\ rCodes' = Append(rCodes, -1)
    /\ rPc' = "ff_raised"
    /\ rRaised' = Raised(rAttempt, "not_found")
    /\ rEvents' = rEvents \o FailEvents(rAttempt, FALSE)
    /\ UNCHANGED <<rCfg, rAttempt, rDelay, rSleeps, ledgerVars, runVars, decideVars, jobVars, probeVars, appendVars, sectionVars>>

\* one pass of the loop in which subprocess.run raises anything but
\* FileNotFoundError (PermissionError for a file that is not executable,
\* UnicodeDecodeError for output that is not valid text): no except clause
\* matches and the exception leaves run_ffmpeg after the start event
FfmpegRunRaises ==
    /\ rPc = "ff_call"
    /\ rTrace' = Append(rTrace, "not_classified")
    /\ rCodes' = Append(rCodes, -1)
    /\ rPc' = "ff_raised"
    /\ rRaised' = Raised(rAttempt, "not_caught")
    /\ rEvents' = rEvents \o <<Ev("start", rAttempt)>>
    /\ UNCHANGED <<rCfg, rAttempt, rDelay, rSleeps, ledgerVars, runVars, decideVars, jobVars, probeVars, appendVars, sectionVars>>

\* one pass of the loop in which the process exits with a non-zero code: from
\* classify_ffmpeg to time.sleep, or to `raise error`
FfmpegExitNonZero(f) ==
    /\ rPc = "ff_call"
    /\ LET cfg == NormalizeFfmpegCfg(rCfg)
           category == classify_ffmpeg(f.stderr, f.code)
       IN /\ rTrace' = Append(rTrace, category)
          /\ rCodes' = Append(rCodes, f.code)
          /\ IF ShouldRetry(cfg, rAttempt, f.code, category)
               THEN /\ \E jitter \in JitterChoices(cfg.jitter_ms) :
                          rSleeps' = Append(rSleeps, rDelay + jitter)
                    /\ rPc' = "ff_sleep"
                    /\ rEvents' = rEvents \o FailEvents(rAttempt, TRUE)
                    /\ UNCHANGED rRaised
               ELSE /\ rPc' = "ff_raised"
                    /\ rRaised' = Raised(rAttempt, "exit_code")
                    /\ rEvents' = rEvents \o FailEvents(rAttempt, FALSE)
                    /\ UNCHANGED rSleeps
    /\ UNCHANGED <<rCfg, rAttempt, rDelay, ledgerVars, runVars, decideVars, jobVars, probeVars, appendVars, sectionVars>>

\* time.sleep returns: `delay *= float(cfg.get("backoff_factor", 1.0)); continue`
FfmpegSleepDone ==
    /\ rPc = "ff_sleep"
    /\ rDelay' = NextDelay(rDelay, NormalizeFfmpegCfg(rCfg).backoff_factor)
    /\ rAttempt' = rAttempt + 1
    /\ rPc' = "ff_call"
    /\ UNCHANGED <<rCfg, rTrace, rSleeps, rCodes, rRaised, rEvents, ledgerVars, runVars, decideVars, jobVars, probeVars, appendVars, sectionVars>>

----------------------------------------------------------------------------
(* GenerationScheduler.run and its worker threads *)

Jobs  == 1..MaxCount
\* sizes of the worker pool explored: serial and two workers
PoolSizes == {1, 2}
NoRes == "<none>"

\* file_hash values the jobs of a run produce
RunHashes == {"", "a"}

\* a JobResult, as far as the scheduler reads it
JobResult(j, h) == [job |-> j, file_hash |-> h]

\* a Future: "pending", or finished with a JobResult ("result"), with None
\* ("none") or with an exception ("exc")
Fut(st, h) == [st |-> st, h |-> h]

\* fcntl.flock(LOCK_EX | LOCK_NB) by a file description that does not hold the
\* lock: TRUE when granted, FALSE for BlockingIOError.  A wrong lock: always granted.
FlockGrantedAlways(holder) == TRUE

FlockGranted(holder) == holder = 0

\* a wrong collector: the result of the future is dropped
CollectResultDrop(rs, j, f) == rs

\* run(): `result = future.result(); if result: results.append(result)`
CollectResult(rs, j, f) == IF f.st = "result" THEN Append(rs, JobResult(j, f.h)) ELSE rs

InFlight(j) == pc[j] \notin {"idle", "done", "collected"}
Workers     == runState \in {"running", "raising"}

\* run() from its first line to `lock_path = ...`: the decision and `pending`,
\* for a count n and the settings and snapshot `in`
RunStart ==
    /\ schedState = "ready"
    /\ runState = "idle"
    /\ \E n \in 0..MaxCount, in \in DecideInputs :
          /\ Decide(in) \in PoolSizes
          /\ count' = n
          /\ concurrency' = Decide(in)
          /\ pending' = [i \in 1..n |-> i]
    /\ runState' = "running"
    /\ results' = << >>
    /\ UNCHANGED <<max_retries, cooldowns, batch, pc, attempt, res, exc, fut, waited, lockHolder,
                   ledgerVars, decideVars, retryVars, jobVars, probeVars, appendVars, sectionVars>>

\* a wrong slice: everything that is pending is submitted at once
BatchSizeAll(c, n) == n

\* `batch = pending[:concurrency]`: the length of the slice of n pending jobs
BatchSize(c, n) == Min(c, n)

\* run(): one pass of `while pending` up to the last executor.submit
Dispatch ==
    /\ runState = "running"
    /\ \A j \in batch : pc[j] = "collected"
    /\ pending # << >>
    /\ LET k == BatchSize(concurrency, Len(pending))
           b == {pending[i] : i \in 1..k}
       IN /\ batch' = b
          /\ pending' = SubSeq(pending, k + 1, Len(pending))
          /\ pc' = [j \in Jobs |-> IF j \in b THEN "factory" ELSE pc[j]]
          /\ attempt' = [j \in Jobs |-> IF j \in b THEN 1 ELSE attempt[j]]
    /\ UNCHANGED <<runState, count, max_retries, cooldowns, concurrency, results, res, exc, fut,
                   waited, lockHolder, ledgerVars, decideVars, retryVars, jobVars, probeVars, appendVars, sectionVars>>

\* _run_single: `job = self.job_factory()`, outside the try block
Factory(j, ok) ==
    /\ Workers
    /\ pc[j] = "factory"
    /\ IF ok
         THEN /\ pc' = [pc EXCEPT ![j] = "acquire"]
              /\ waited' = [waited EXCEPT ![j] = 0]
              /\ UNCHANGED <<exc, fut>>
         ELSE /\ pc' = [pc EXCEPT ![j] = "done"]
              /\ exc' = [exc EXCEPT ![j] = "FactoryError"]
              /\ fut' = [fut EXCEPT ![j] = Fut("exc", NoRes)]
              /\ UNCHANGED waited
    /\ UNCHANGED <<runState, count, max_retries, cooldowns, concurrency, pending, batch, results,
                   attempt, res, lockHolder, ledgerVars, decideVars, retryVars, jobVars, probeVars, appendVars, sectionVars>>

\* a wrong failure path: the TimeoutError of __enter__ is not caught by
\* _run_single and ends the worker's future
TryLockTimeoutEscapes(j) ==
    /\ Workers
    /\ pc[j] = "acquire"
    /\ IF FlockGranted(lockHolder)
         THEN /\ lockHolder' = j
              /\ pc' = [pc EXCEPT ![j] = "run"]
              /\ UNCHANGED <<exc, waited, fut>>
         ELSE IF waited[j] > TimeoutTicks
           THEN /\ exc' = [exc EXCEPT ![j] = "TimeoutError"]
                /\ pc' = [pc EXCEPT ![j] = "done"]
                /\ fut' = [fut EXCEPT ![j] = Fut("exc", NoRes)]
                /\ UNCHANGED <<lockHolder, waited>>
           ELSE /\ \E w \in (waited[j] + 1)..(TimeoutTicks + 1) :
                      waited' = [waited EXCEPT ![j] = w]
                /\ UNCHANGED <<lockHolder, pc, exc, fut>>
    /\ UNCHANGED <<runState, count, max_retries, cooldowns, concurrency, pending, batch, results,
                   attempt, res, ledgerVars, decideVars, retryVars, jobVars, probeVars, appendVars, sectionVars>>

\* FileLock.__enter__: one pass of its loop
TryLock(j) ==
    /\ Workers
    /\ pc[j] = "acquire"
    /\ IF FlockGranted(lockHolder)
         THEN /\ lockHolder' = j
              /\ pc' = [pc EXCEPT ![j] = "run"]
              /\ UNCHANGED <<exc, waited>>
         ELSE IF waited[j] > TimeoutTicks
           THEN /\ exc' = [exc EXCEPT ![j] = "TimeoutError"]
                /\ pc' = [pc EXCEPT ![j] = "failed"]
                /\ UNCHANGED <<lockHolder, waited>>
           ELSE /\ \E w \in (waited[j] + 1)..(TimeoutTicks + 1) :
                      waited' = [waited EXCEPT ![j] = w]
                /\ UNCHANGED <<lockHolder, pc, exc>>
    /\ UNCHANGED <<runState, count, max_retries, cooldowns, concurrency, pending, batch, results,
                   attempt, res, fut, ledgerVars, decideVars, retryVars, jobVars, probeVars, appendVars, sectionVars>>

\* a wrong __exit__: the file stays open and locked
FileLockExitKeeps(holder, j) == holder

\* FileLock.__exit__ of worker j: flock(LOCK_UN) and close on its own file
FileLockExit(holder, j) == IF holder = j THEN 0 ELSE holder

\* `result = job.run()` returns inside the guarded section; FileLock.__exit__
\* unlocks and closes the file on the way out of the with block
JobRunReturns(j, h) ==
    /\ Workers
    /\ pc[j] = "run"
    /\ res' = [res EXCEPT ![j] = h]
    /\ lockHolder' = FileLockExit(lockHolder, j)
    /\ pc' = [pc EXCEPT ![j] = "check"]
    /\ UNCHANGED <<runState, count, max_retries, cooldowns, concurrency, pending, batch, results,
                   attempt, exc, fut, waited, ledgerVars, decideVars, retryVars, jobVars, probeVars, appendVars, sectionVars>>

\* a wrong failure path: the failed attempt leaves a record in the index file
JobRunRaisesRecorded(j) ==
    /\ Workers
    /\ pc[j] = "run"
    /\ exc' = [exc EXCEPT ![j] = "JobError"]
    /\ lockHolder' = FileLockExit(lockHolder, j)
    /\ pc' = [pc EXCEPT ![j] = "failed"]
    /\ ledger' = AppendIndex(ledger, "")
    /\ UNCHANGED <<runState, count, max_retries, cooldowns, concurrency, pending, batch, results,
                   attempt, res, fut, waited, ledger0, schedState, completed_hashes,
                   appended, decideVars, retryVars, jobVars, probeVars, appendVars, sectionVars>>

\* a wrong failure path: the except block runs inside the with block, so the
\* worker keeps the lock while it cools down
JobRunRaisesHolding(j) ==
    /\ Workers
    /\ pc[j] = "run"
    /\ exc' = [exc EXCEPT ![j] = "JobError"]
    /\ pc' = [pc EXCEPT ![j] = "failed"]
    /\ UNCHANGED <<runState, count, max_retries, cooldowns, concurrency, pending, batch, results,
                   attempt, res, fut, waited, lockHolder, ledgerVars, decideVars, retryVars, jobVars, probeVars, appendVars, sectionVars>>

\* job.run() raises inside the guarded section; FileLock.__exit__ unlocks and
\* the except block of _run_single catches the exception
JobRunRaises(j) ==
    /\ Workers
    /\ pc[j] = "run"
    /\ exc' = [exc EXCEPT ![j] = "JobError"]
    /\ lockHolder' = FileLockExit(lockHolder, j)
    /\ pc' = [pc EXCEPT ![j] = "failed"]
    /\ UNCHANGED <<runState, count, max_retries, cooldowns, concurrency, pending, batch, results,
                   attempt, res, fut, waited, ledgerVars, decideVars, retryVars, jobVars, probeVars, appendVars, sectionVars>>

\* a wrong loop: one attempt too many
MoreAttemptsOneTooMany(n, retries) == n < retries + 2

\* _run_with_retry: `for attempt in range(1, max_retries + 2)` has a pass after pass n
MoreAttempts(n, retries) == n < retries + 1

\* the except block of _run_single (log, time.sleep(cooldown_sec), return None)
\* and the next pass of the loop of _run_with_retry
Cooldown(j) ==
    /\ Workers
    /\ pc[j] = "failed"
    /\ cooldowns' = [cooldowns EXCEPT ![j] = @ + 1]
    /\ exc' = [exc EXCEPT ![j] = "none"]
    /\ IF MoreAttempts(attempt[j], max_retries)
         THEN /\ attempt' = [attempt EXCEPT ![j] = @ + 1]
              /\ pc' = [pc EXCEPT ![j] = "factory"]
              /\ UNCHANGED fut
         ELSE /\ pc' = [pc EXCEPT ![j] = "done"]
              /\ fut' = [fut EXCEPT ![j] = Fut("none", NoRes)]
              /\ UNCHANGED attempt
    /\ UNCHANGED <<runState, count, max_retries, concurrency, pending, batch, results,
                   res, waited, lockHolder, ledgerVars, decideVars, retryVars, jobVars, probeVars, appendVars, sectionVars>>

\* a wrong test: nothing is a duplicate
IsDuplicateNever(h, hashes) == FALSE

\* a wrong test: the empty hash is looked up like any other
IsDuplicateEmptyToo(h, hashes) == h \in hashes

\* `result.file_hash and result.file_hash in self.completed_hashes`
IsDuplicate(h, hashes) == h # "" /\ h \in hashes

\* _run_single: the duplicate test and `return result` of a duplicate
CheckDuplicate(j) ==
    /\ Workers
    /\ pc[j] = "check"
    /\ IF IsDuplicate(res[j], completed_hashes)
         THEN /\ pc' = [pc EXCEPT ![j] = "done"]
              /\ fut' = [fut EXCEPT ![j] = Fut("result", res[j])]
         ELSE /\ pc' = [pc EXCEPT ![j] = "add"]
              /\ UNCHANGED fut
    /\ UNCHANGED <<runState, count, max_retries, cooldowns, concurrency, pending, batch, results,
                   attempt, res, exc, waited, lockHolder,
                   ledgerVars, decideVars, retryVars, jobVars, probeVars, appendVars, sectionVars>>

\* _run_single: `if result.file_hash: self.completed_hashes.add(result.file_hash)`
AddHash(j) ==
    /\ Workers
    /\ pc[j] = "add"
    /\ completed_hashes' = IF res[j] # "" THEN completed_hashes \cup {res[j]}
                                          ELSE completed_hashes
    /\ pc' = [pc EXCEPT ![j] = "append"]
    /\ UNCHANGED <<ledger, ledger0, schedState, appended, runState, count, max_retries, cooldowns,
                   concurrency, pending, batch, results, attempt, res, exc, fut, waited,
                   lockHolder, decideVars, retryVars, jobVars, probeVars, appendVars, sectionVars>>

\* _run_single: `self._append_index(result); return result`; the open or the
\* write may raise OSError, which nothing catches
AppendRecord(j, ok) ==
    /\ Workers
    /\ pc[j] = "append"
    /\ pc' = [pc EXCEPT ![j] = "done"]
    /\ IF ok
         THEN /\ ledger' = AppendIndex(ledger, res[j])
              /\ appended' = Append(appended, res[j])
              /\ fut' = [fut EXCEPT ![j] = Fut("result", res[j])]
              /\ UNCHANGED exc
         ELSE /\ exc' = [exc EXCEPT ![j] = "OSError"]
              /\ fut' = [fut EXCEPT ![j] = Fut("exc", NoRes)]
              /\ UNCHANGED <<ledger, appended>>
    /\ UNCHANGED <<ledger0, schedState, completed_hashes, runState, count, max_retries, cooldowns,
                   concurrency, pending, batch, results, attempt, res, waited,
                   lockHolder, decideVars, retryVars, jobVars, probeVars, appendVars, sectionVars>>

\* run(): one pass of `for future in as_completed(futures)`; future.result()
\* re-raises the exception of the worker
Collect(j) ==
    /\ runState = "running"
    /\ j \in batch
    /\ pc[j] = "done"
    /\ pc' = [pc EXCEPT ![j] = "collected"]
    /\ results' = CollectResult(results, j, fut[j])
    /\ runState' = IF fut[j].st = "exc" THEN "raising" ELSE "running"
    \* the worker's frame is gone; the future keeps its state
    /\ attempt' = [attempt EXCEPT ![j] = 0]
    /\ res' = [res EXCEPT ![j] = NoRes]
    /\ exc' = [exc EXCEPT ![j] = "none"]
    /\ cooldowns' = [cooldowns EXCEPT ![j] = 0]
    /\ UNCHANGED <<count, max_retries, concurrency, pending, batch,
                   fut, waited, lockHolder, ledgerVars, decideVars, retryVars, jobVars, probeVars, appendVars, sectionVars>>

\* the exception leaves the `with ThreadPoolExecutor` block, whose __exit__
\* waits for the workers of the batch, and then leaves run()
Propagate ==
    /\ runState = "raising"
    /\ \A j \in batch : ~InFlight(j)
    /\ runState' = "raised"
    /\ UNCHANGED <<count, max_retries, cooldowns, concurrency, pending, batch, results, pc, attempt,
                   res, exc, fut, waited, lockHolder,
                   ledgerVars, decideVars, retryVars, jobVars, probeVars, appendVars, sectionVars>>

\* run(): `while pending` ends, `return results`
Return ==
    /\ runState = "running"
    /\ pending = << >>
    /\ \A j \in batch : pc[j] = "collected"
    /\ runState' = "returned"
    /\ UNCHANGED <<count, max_retries, cooldowns, concurrency, pending, batch, results, pc, attempt,
                   res, exc, fut, waited, lockHolder,
                   ledgerVars, decideVars, retryVars, jobVars, probeVars, appendVars, sectionVars>>

----------------------------------------------------------------------------
(* Ledger operations of SpecLedger: one scheduler commits results to the   *)
(* index and a fresh scheduler is constructed on the same file.            *)

\* _run_single after the duplicate test, for a result with file_hash h
CommitResult(h) ==
    /\ schedState = "ready"
    /\ Len(appended) < MaxAppends
    /\ ~(h # "" /\ h \in completed_hashes)
    /\ completed_hashes' = IF h # "" THEN completed_hashes \cup {h} ELSE completed_hashes
    /\ ledger' = AppendIndex(ledger, h)
    /\ appended' = Append(appended, h)
    /\ UNCHANGED <<ledger0, schedState, runVars, decideVars, retryVars, jobVars, probeVars, appendVars, sectionVars>>

\* GenerationScheduler.__init__ of a fresh instance on the same index file
Reconstruct ==
    /\ schedState = "ready"
    /\ appended # << >>
    /\ LET r == LoadExistingHashes(ledger) IN
         IF r.raised
           THEN /\ schedState' = "reload_raised"
                /\ completed_hashes' = {}
           ELSE /\ schedState' = "reloaded"
                /\ completed_hashes' = r.hashes
    /\ UNCHANGED <<ledger, ledger0, appended, runVars, decideVars, retryVars, jobVars, probeVars, appendVars, sectionVars>>

----------------------------------------------------------------------------
(* runner/job.py: GenerationJob.run, one call.  The steps run in the order  *)
(* of the code; run() has no try statement, so the exception of a step     *)
(* leaves run().                                                           *)

\* prompts prompt_pool.sample can pick
Candidates == {"p1", "p2"}

\* the locals of run() the JobResult is built from
Locals(candidate, cover_path, file_hash) == [candidate |-> candidate, cover_path |-> cover_path, file_hash |-> file_hash]

\* `return JobResult(..., success=True)`; error keeps its default None
CompletedJobResult(loc, upload_ok) == [candidate |-> loc.candidate, cover_path |-> loc.cover_path, file_hash |-> loc.file_hash, upload_success |-> upload_ok, success |-> TRUE, error |-> "None"]

Returned(result) == [kind |-> "returned", result |-> result]
RaisedAt(step) == [kind |-> "raised", step |-> step]
NotFinished == [kind |-> "running"]

\* steps whose callee can raise: sample (no safe prompt), the two generators
\* (with_retry re-raises), auto_postprocess (run_ffmpeg raises), shutil.move,
\* reading the file for the hash, and upload_video before its own try block
RaisingSteps == {"sample", "txt2img", "img2vid", "postprocess", "move", "hash", "upload"}

\* `candidate = self.prompt_pool.sample(...)`
JobSample(c) ==
    /\ jPc = "sample"
    /\ jLoc' = [jLoc EXCEPT !.candidate = c]
    /\ jPc' = "txt2img"
    /\ UNCHANGED <<jCfg, jOut, ledgerVars, runVars, decideVars, retryVars, probeVars, appendVars, sectionVars>>

\* `txt2img_result = self.txt2img.generate(...)`
JobTxt2Img ==
    /\ jPc = "txt2img"
    /\ jPc' = "img2vid"
    /\ UNCHANGED <<jCfg, jLoc, jOut, ledgerVars, runVars, decideVars, retryVars, probeVars, appendVars, sectionVars>>

\* `img2vid_result = self.img2vid.generate(...)`
JobImg2Vid ==
    /\ jPc = "img2vid"
    /\ jPc' = "postprocess"
    /\ UNCHANGED <<jCfg, jLoc, jOut, ledgerVars, runVars, decideVars, retryVars, probeVars, appendVars, sectionVars>>

\* `processed_path = auto_postprocess(...)`
JobPostprocess ==
    /\ jPc = "postprocess"
    /\ jPc' = "move"
    /\ UNCHANGED <<jCfg, jLoc, jOut, ledgerVars, runVars, decideVars, retryVars, probeVars, appendVars, sectionVars>>

\* `shutil.move(processed_path, final_path)`
JobMove ==
    /\ jPc = "move"
    /\ jPc' = "cover"
    /\ UNCHANGED <<jCfg, jLoc, jOut, ledgerVars, runVars, decideVars, retryVars, probeVars, appendVars, sectionVars>>

\* `if self.config.video.cover_export: ... if potential_cover.exists()`
JobCover(exists) ==
    /\ jPc = "cover"
    /\ jLoc' = [jLoc EXCEPT !.cover_path = IF jCfg /\ exists THEN "cover" ELSE "None"]
    /\ jPc' = "hash"
    /\ UNCHANGED <<jCfg, jOut, ledgerVars, runVars, decideVars, retryVars, probeVars, appendVars, sectionVars>>

\* `file_hash = ""; if final_path.exists(): ... file_hash = sha.hexdigest()`;
\* h = "" stands for a final file that does not exist
JobHash(h) ==
    /\ jPc = "hash"
    /\ jLoc' = [jLoc EXCEPT !.file_hash = h]
    /\ jPc' = "upload"
    /\ UNCHANGED <<jCfg, jOut, ledgerVars, runVars, decideVars, retryVars, probeVars, appendVars, sectionVars>>

\* `upload_result = upload_video(...)`, which turns a failing upload into
\* DraftResult(success=False), and `return JobResult(...)`
JobUpload(upload_ok) ==
    /\ jPc = "upload"
    /\ jOut' = Returned(CompletedJobResult(jLoc, upload_ok))
    /\ jPc' = "returned"
    /\ UNCHANGED <<jCfg, jLoc, ledgerVars, runVars, decideVars, retryVars, probeVars, appendVars, sectionVars>>

\* the callee of the step at hand raises: nothing in run() catches it
JobStepRaises ==
    /\ jPc \in RaisingSteps
    /\ jOut' = RaisedAt(jPc)
    /\ jPc' = "raised"
    /\ UNCHANGED <<jCfg, jLoc, ledgerVars, runVars, decideVars, retryVars, probeVars, appendVars, sectionVars>>

----------------------------------------------------------------------------
(* system/gpu_probe.py: _parse_nvidia_smi and get_gpu_info, one call *)

\* A comma-separated part of a line, stripped: text int() accepts ("int", with
\* its value n), other text ("text") or nothing ("empty"); s is the text.
PartOf(kind, n, s) == [kind |-> kind, n |-> n, s |-> s]
IntPart(n, s) == PartOf("int", n, s)
TextPart(s)   == PartOf("text", 0, s)
EmptyPart     == PartOf("empty", 0, "")

\* A line of stdout: its parts and the numbers re.findall(r"(\d+)") finds in it.
\* A blank line has the single part EmptyPart.
LineOf(parts, digits) == [parts |-> parts, digits |-> digits]
BlankLine == LineOf(<<EmptyPart>>, << >>)

\* outputs of nvidia-smi: sequences of lines
SmiOutputs ==
    { << >>,
      <<BlankLine>>,
      <<LineOf(<<IntPart(8, "8"), IntPart(5, "5"), TextPart("RTX")>>, <<8, 5>>)>>,
      <<BlankLine, LineOf(<<IntPart(8, "8"), IntPart(2, "2"), TextPart("RTX")>>, <<8, 2>>)>>,
      <<LineOf(<<IntPart(8, "8"), IntPart(5, "5"), EmptyPart>>, <<8, 5>>)>>,
      <<LineOf(<<TextPart("[N/A]"), TextPart("[N/A]"), TextPart("RTX")>>, << >>)>>,
      <<LineOf(<<TextPart("8 MiB"), TextPart("5 MiB"), TextPart("RTX")>>, <<8, 5>>)>>,
      <<LineOf(<<TextPart("8 MiB"), TextPart("5 MiB")>>, <<8, 5>>)>>,
      <<LineOf(<<TextPart("No devices were found")>>, << >>)>>,
      <<LineOf(<<TextPart("RTX 3")>>, <<3>>)>> }

\* what subprocess.run does: FileNotFoundError ("missing"), CalledProcessError
\* because of check=True ("exit_nonzero"), or a finished process with stdout
Smi(kind, stdout) == [kind |-> kind, stdout |-> stdout]
SmiOutcomes == {Smi("missing", << >>), Smi("exit_nonzero", << >>)} \cup {Smi("stdout", o) : o \in SmiOutputs}

\* the snapshot dict
Snapshot(total, free, name) == [total |-> total, free |-> free, name |-> name]
CpuSnapshot == Snapshot(0, 0, "CPU")

\* the value or the ValueError of a callee
Value(v)   == [ok |-> TRUE, v |-> v]
ValueError == [ok |-> FALSE, v |-> CpuSnapshot]

\* `lines = [line.strip() for line in output.splitlines() if line.strip()]`
RECURSIVE NonBlank(_)
NonBlank(output) ==
    IF output = << >> THEN << >>
    ELSE IF Head(output) = BlankLine THEN NonBlank(Tail(output))
    ELSE <<Head(output)>> \o NonBlank(Tail(output))

\* _parse_nvidia_smi
ParseNvidiaSmi(output) ==
    LET lines == NonBlank(output) IN
    IF lines = << >> THEN ValueError
    ELSE LET first == lines[1]
             parts == first.parts
         IN IF Len(parts) < 3
              THEN IF Len(first.digits) >= 2
                     THEN Value(Snapshot(first.digits[1], first.digits[2], "NVIDIA"))
                     ELSE ValueError
              ELSE IF parts[1].kind = "int" /\ parts[2].kind = "int"
                     THEN Value(Snapshot(parts[1].n, parts[2].n,
                                         IF parts[3].s = "" THEN "NVIDIA" ELSE parts[3].s))
                     ELSE ValueError

\* what the torch stage meets: torch is None ("absent"), has no cuda attribute
\* ("no_cuda"), is_available() is False ("unavailable") or True ("available",
\* with total and allocated memory in MB), or one of its calls raises
Torch(state, total, used) == [state |-> state, total |-> total, used |-> used]
TorchOutcomes ==
    { Torch("absent", 0, 0), Torch("no_cuda", 0, 0), Torch("unavailable", 0, 0),
      Torch("available", 8, 3), Torch("available", 8, 0),
      Torch("is_available_raises", 0, 0), Torch("get_device_properties_raises", 0, 0),
      Torch("memory_allocated_raises", 8, 0) }

ProbeInputs == [smi : SmiOutcomes, torch : TorchOutcomes]

ProbeReturned(info) == [kind |-> "returned", info |-> info, stage |-> "none"]
ProbeRaised(stage)  == [kind |-> "raised", info |-> CpuSnapshot, stage |-> stage]
ProbeRunning        == [kind |-> "running", info |-> CpuSnapshot, stage |-> "none"]

\* get_gpu_info: the try block around nvidia-smi; every exception is logged
\* and the call goes on to the torch stage
ProbeSmi ==
    /\ gPc = "smi"
    /\ LET parsed == IF gIn.smi.kind = "stdout" THEN ParseNvidiaSmi(gIn.smi.stdout)
                                                ELSE ValueError
       IN IF parsed.ok
            THEN gPc' = "returned" /\ gOut' = ProbeReturned(parsed.v)
            ELSE gPc' = "torch" /\ UNCHANGED gOut
    /\ UNCHANGED <<gIn, ledgerVars, runVars, decideVars, retryVars, jobVars, appendVars, sectionVars>>

\* get_gpu_info: the torch stage, outside any try block, and the CPU fallback
ProbeTorch ==
    /\ gPc = "torch"
    /\ LET t == gIn.torch IN
         IF t.state \in {"absent", "no_cuda", "unavailable"}
           THEN gPc' = "returned" /\ gOut' = ProbeReturned(CpuSnapshot)
         ELSE IF t.state = "available"
           THEN gPc' = "returned"
                /\ gOut' = ProbeReturned(Snapshot(t.total, t.total - t.used, "RTX"))
         ELSE gPc' = "raised" /\ gOut' = ProbeRaised(t.state)
    /\ UNCHANGED <<gIn, ledgerVars, runVars, decideVars, retryVars, jobVars, appendVars, sectionVars>>

----------------------------------------------------------------------------
(* The guarded section of _run_single, `with FileLock(lock_path): result = *)
(* job.run()`, entered by the workers of one batch, with job.run taken     *)
(* step by step.                                                           *)

\* worker threads of one batch
SectionWorkers == {1, 2, 3}

\* the steps of GenerationJob.run in the order of its statements
JobSteps == <<"sample", "txt2img", "img2vid", "postprocess", "move", "cover", "hash", "upload">>

\* the steps that call the generation backend
BackendSteps == {"txt2img", "img2vid"}

\* the position of step s in JobSteps
StepIndex(s) == CHOOSE i \in 1..Len(JobSteps) : JobSteps[i] = s

\* worker w is inside job.run
InJobRun(w) == sPc[w] \in {JobSteps[i] : i \in 1..Len(JobSteps)}

\* FileLock.__enter__ gets the flock; job.run() is called and starts with its first step
SectionEnter(w) ==
    /\ sPc[w] = "acquire"
    /\ FlockGranted(sHolder)
    /\ sHolder' = w
    /\ sPc' = [sPc EXCEPT ![w] = JobSteps[1]]
    /\ UNCHANGED <<ledgerVars, runVars, decideVars, retryVars, jobVars, probeVars, appendVars>>

\* FileLock.__enter__ polls a held lock until its timeout and raises TimeoutError
SectionTimeout(w) ==
    /\ sPc[w] = "acquire"
    /\ ~FlockGranted(sHolder)
    /\ sPc' = [sPc EXCEPT ![w] = "timed_out"]
    /\ UNCHANGED <<sHolder, ledgerVars, runVars, decideVars, retryVars, jobVars, probeVars, appendVars>>

\* a step of job.run completes and the next statement starts
SectionStep(w) ==
    /\ InJobRun(w)
    /\ StepIndex(sPc[w]) < Len(JobSteps)
    /\ sPc' = [sPc EXCEPT ![w] = JobSteps[StepIndex(sPc[w]) + 1]]
    /\ UNCHANGED <<sHolder, ledgerVars, runVars, decideVars, retryVars, jobVars, probeVars, appendVars>>

\* the last step completes, job.run returns, FileLock.__exit__ releases the lock
SectionReturns(w) ==
    /\ sPc[w] = JobSteps[Len(JobSteps)]
    /\ sHolder' = FileLockExit(sHolder, w)
    /\ sPc' = [sPc EXCEPT ![w] = "returned"]
    /\ UNCHANGED <<ledgerVars, runVars, decideVars, retryVars, jobVars, probeVars, appendVars>>

\* a step of job.run raises, FileLock.__exit__ releases the lock on the way
\* to the except block
SectionRaises(w) ==
    /\ sPc[w] \in RaisingSteps
    /\ sHolder' = FileLockExit(sHolder, w)
    /\ sPc' = [sPc EXCEPT ![w] = "raised"]
    /\ UNCHANGED <<ledgerVars, runVars, decideVars, retryVars, jobVars, probeVars, appendVars>>

----------------------------------------------------------------------------
(* GenerationScheduler._append_index called by several worker threads at   *)
(* once.  Every call opens the index file for itself in append mode, so    *)
(* every writer has its own file object with its own buffer; the text      *)
(* reaches the file through write(2) on a descriptor opened with O_APPEND, *)
(* which puts the bytes of one call at the end of the file in one piece.   *)

\* worker threads inside _append_index at the same time
Writers == {1, 2}

\* `json.dumps(record, ensure_ascii=False) + "\n"`
RecordText(h) == <<Obj(h), NL>>

\* a wrong writer: the record and the newline reach the file in separate write(2) calls
FlushChunksPerToken(data) == [i \in 1..Len(data) |-> <<data[i]>>]

\* the write(2) calls a file object makes for the one string fp.write was
\* given: the string is handed over whole, by fp.write itself when it is
\* larger than the buffer and by the close at the end of the with block otherwise
FlushChunks(data) == <<data>>

\* `with self.index_file.open("a", encoding="utf-8") as fp`
AppendOpen(w) ==
    /\ wPc[w] = "call"
    /\ wPc' = [wPc EXCEPT ![w] = "open"]
    /\ UNCHANGED <<wRec, wBuf, ledgerVars, runVars, decideVars, retryVars, jobVars, probeVars, sectionVars>>

\* `fp.write(json.dumps(record, ensure_ascii=False) + "\n")`
AppendWrite(w) ==
    /\ wPc[w] = "open"
    /\ wBuf' = [wBuf EXCEPT ![w] = FlushChunks(RecordText(wRec[w]))]
    /\ wPc' = [wPc EXCEPT ![w] = "written"]
    /\ UNCHANGED <<wRec, ledgerVars, runVars, decideVars, retryVars, jobVars, probeVars, sectionVars>>

\* one write(2) of the writer's file object: the bytes go to the end of the file
AppendSyscall(w) ==
    /\ wPc[w] = "written"
    /\ wBuf[w] # << >>
    /\ ledger' = ledger \o Head(wBuf[w])
    /\ wBuf' = [wBuf EXCEPT ![w] = Tail(@)]
    /\ appended' = IF Tail(wBuf[w]) = << >> THEN Append(appended, wRec[w]) ELSE appended
    /\ UNCHANGED <<wRec, wPc, ledger0, schedState, completed_hashes, runVars, decideVars, retryVars, jobVars, probeVars, sectionVars>>

\* the end of the with block, after the buffer was flushed: the file is closed
AppendClose(w) ==
    /\ wPc[w] = "written"
    /\ wBuf[w] = << >>
    /\ wPc' = [wPc EXCEPT ![w] = "closed"]
    /\ UNCHANGED <<wRec, wBuf, ledgerVars, runVars, decideVars, retryVars, jobVars, probeVars, sectionVars>>

----------------------------------------------------------------------------
(* Initial states and specifications *)

IdleLedger ==
    /\ ledger = << >> /\ ledger0 = << >> /\ schedState = "new"
    /\ completed_hashes = {} /\ appended = << >>

IdleRun ==
    /\ runState = "idle" /\ count = 0 /\ max_retries = 1 /\ concurrency = 0
    /\ pending = << >> /\ batch = {} /\ results = << >>
    /\ pc = [j \in Jobs |-> "idle"]
    /\ attempt = [j \in Jobs |-> 0]
    /\ res = [j \in Jobs |-> NoRes]
    /\ exc = [j \in Jobs |-> "none"]
    /\ fut = [j \in Jobs |-> Fut("pending", NoRes)]
    /\ waited = [j \in Jobs |-> 0]
    /\ cooldowns = [j \in Jobs |-> 0]
    /\ lockHolder = 0

IdleDecide == dIn = << >> /\ dOut = 0

IdleRetry ==
    /\ rCfg = << >> /\ rPc = "idle" /\ rAttempt = 0 /\ rDelay = 0
    /\ rTrace = << >> /\ rSleeps = << >> /\ rCodes = << >> /\ rRaised = NotRaised
    /\ rEvents = << >>

IdleJob == jCfg = << >> /\ jPc = "idle" /\ jLoc = << >> /\ jOut = << >>

IdleProbe == gIn = << >> /\ gPc = "idle" /\ gOut = << >>

IdleAppend == wRec = << >> /\ wPc = << >> /\ wBuf = << >>

\* the parts of the model a specification about the scheduler leaves alone
IdleSection == sPc = << >> /\ sHolder = 0

IdleOthers == IdleJob /\ IdleProbe /\ IdleAppend /\ IdleSection

\* index files a scheduler of Spec is constructed on
InitLedgers ==
    { << >>, <<Obj("a"), NL>>, <<Obj(""), NL>>, <<Tok("garbage", "")>>,
      <<Tok("null", ""), NL>> }

Init ==
    /\ ledger \in InitLedgers /\ ledger0 = ledger /\ schedState = "new"
    /\ completed_hashes = {} /\ appended = << >>
    /\ runState = "idle" /\ count = 0 /\ max_retries \in 1..MaxRetries /\ concurrency = 0
    /\ pending = << >> /\ batch = {} /\ results = << >>
    /\ pc = [j \in Jobs |-> "idle"]
    /\ attempt = [j \in Jobs |-> 0]
    /\ res = [j \in Jobs |-> NoRes]
    /\ exc = [j \in Jobs |-> "none"]
    /\ fut = [j \in Jobs |-> Fut("pending", NoRes)]
    /\ waited = [j \in Jobs |-> 0]
    /\ cooldowns = [j \in Jobs |-> 0]
    /\ lockHolder = 0
    /\ IdleDecide /\ IdleRetry /\ IdleOthers

Next ==
    \/ Construct
    \/ RunStart
    \/ Dispatch
    \/ \E j \in Jobs, ok \in BOOLEAN : Factory(j, ok)
    \/ \E j \in Jobs : TryLock(j)
    \/ \E j \in Jobs, h \in RunHashes : JobRunReturns(j, h)
    \/ \E j \in Jobs : JobRunRaises(j)
    \/ \E j \in Jobs : Cooldown(j)
    \/ \E j \in Jobs : CheckDuplicate(j)
    \/ \E j \in Jobs : AddHash(j)
    \/ \E j \in Jobs, ok \in BOOLEAN : AppendRecord(j, ok)
    \/ \E j \in Jobs : Collect(j)
    \/ Propagate
    \/ Return

Spec == Init /\ [][Next]_vars

\* every index file of at most MaxFileLen tokens
RECURSIVE FilesUpTo(_)
FilesUpTo(n) ==
    IF n = 0 THEN {<< >>}
    ELSE LET shorter == FilesUpTo(n - 1)
         IN shorter \cup {Append(f, t) : f \in shorter, t \in Tokens}

InitLedger ==
    /\ ledger \in FilesUpTo(MaxFileLen) /\ ledger0 = ledger /\ schedState = "new"
    /\ completed_hashes = {} /\ appended = << >>
    /\ IdleRun /\ IdleDecide /\ IdleRetry /\ IdleOthers

NextLedger ==
    \/ Construct
    \/ \E h \in HashVals : CommitResult(h)
    \/ Reconstruct

SpecLedger == InitLedger /\ [][NextLedger]_vars

InitDecide ==
    /\ dIn \in DecideInputs /\ dOut = 0
    /\ IdleLedger /\ IdleRun /\ IdleRetry /\ IdleOthers

NextDecide == DecideConcurrency

SpecDecide == InitDecide /\ [][NextDecide]_vars

InitDecideAny ==
    /\ dIn \in AnyDecideInputs /\ dOut = 0
    /\ IdleLedger /\ IdleRun /\ IdleRetry /\ IdleOthers

SpecDecideAny == InitDecideAny /\ [][NextDecide]_vars

InitRetry ==
    /\ rCfg \in RetryCfgs /\ rPc = "idle" /\ rAttempt = 0 /\ rDelay = 0
    /\ rTrace = << >> /\ rSleeps = << >> /\ rCodes = << >> /\ rRaised = NotRaised
    /\ rEvents = << >>
    /\ IdleLedger /\ IdleRun /\ IdleDecide /\ IdleOthers

NextRetry ==
    \/ RetryEnter
    \/ RetryCallReturns
    \/ \E err \in SdErrors : RetryCallRaises(err)
    \/ RetrySleepDone

SpecRetry == InitRetry /\ [][NextRetry]_vars

InitFfmpeg ==
    /\ rCfg \in FfmpegCfgs /\ rPc = "ff_idle" /\ rAttempt = 0 /\ rDelay = 0
    /\ rTrace = << >> /\ rSleeps = << >> /\ rCodes = << >> /\ rRaised = NotRaised
    /\ rEvents = << >>
    /\ IdleLedger /\ IdleRun /\ IdleDecide /\ IdleOthers

NextFfmpeg ==
    \/ FfmpegEnter
    \/ FfmpegExitZero
    \/ FfmpegNotFound
    \/ FfmpegRunRaises
    \/ \E f \in FfmpegFailures : FfmpegExitNonZero(f)
    \/ FfmpegSleepDone

SpecFfmpeg == InitFfmpeg /\ [][NextFfmpeg]_vars

\* one call through either wrapper
InitWrappers == InitRetry \/ InitFfmpeg

NextWrappers == NextRetry \/ NextFfmpeg

SpecWrappers == InitWrappers /\ [][NextWrappers]_vars

InitJob ==
    /\ jCfg \in BOOLEAN /\ jPc = "sample" /\ jLoc = Locals("", "None", "")
    /\ jOut = NotFinished
    /\ IdleLedger /\ IdleRun /\ IdleDecide /\ IdleRetry /\ IdleProbe /\ IdleAppend /\ IdleSection

NextJob ==
    \/ \E c \in Candidates : JobSample(c)
    \/ JobTxt2Img
    \/ JobImg2Vid
    \/ JobPostprocess
    \/ JobMove
    \/ \E exists \in BOOLEAN : JobCover(exists)
    \/ \E h \in HashVals : JobHash(h)
    \/ \E upload_ok \in BOOLEAN : JobUpload(upload_ok)
    \/ JobStepRaises

SpecJob == InitJob /\ [][NextJob]_vars

InitProbe ==
    /\ gIn \in ProbeInputs /\ gPc = "smi" /\ gOut = ProbeRunning
    /\ IdleLedger /\ IdleRun /\ IdleDecide /\ IdleRetry /\ IdleJob /\ IdleAppend /\ IdleSection

NextProbe ==
    \/ ProbeSmi
    \/ ProbeTorch

SpecProbe == InitProbe /\ [][NextProbe]_vars

InitSection ==
    /\ sPc = [w \in SectionWorkers |-> "acquire"] /\ sHolder = 0
    /\ IdleLedger /\ IdleRun /\ IdleDecide /\ IdleRetry /\ IdleJob /\ IdleProbe /\ IdleAppend

NextSection ==
    \/ \E w \in SectionWorkers : SectionEnter(w)
    \/ \E w \in SectionWorkers : SectionTimeout(w)
    \/ \E w \in SectionWorkers : SectionStep(w)
    \/ \E w \in SectionWorkers : SectionReturns(w)
    \/ \E w \in SectionWorkers : SectionRaises(w)

SpecSection == InitSection /\ [][NextSection]_vars

\* index files the writers of SpecAppend find: empty, one record, a torn line
AppendLedgers == {<< >>, <<Obj("a"), NL>>, <<Tok("garbage", "")>>}

InitAppend ==
    /\ ledger \in AppendLedgers /\ ledger0 = ledger /\ schedState = "ready"
    /\ completed_hashes = {} /\ appended = << >>
    /\ wRec \in [Writers -> HashVals]
    /\ wPc = [w \in Writers |-> "call"]
    /\ wBuf = [w \in Writers |-> << >>]
    /\ IdleRun /\ IdleDecide /\ IdleRetry /\ IdleJob /\ IdleProbe /\ IdleSection

NextAppend ==
    \/ \E w \in Writers : AppendOpen(w)
    \/ \E w \in Writers : AppendWrite(w)
    \/ \E w \in Writers : AppendSyscall(w)
    \/ \E w \in Writers : AppendClose(w)

SpecAppend == InitAppend /\ [][NextAppend]_vars

----------------------------------------------------------------------------
(* Properties *)

Range(seq) == {seq[i] : i \in DOMAIN seq}
Occurrences(seq, x) == Cardinality({i \in DOMAIN seq : seq[i] = x})

RECURSIVE Pow(_, _)
Pow(b, e) == IF e = 0 THEN 1 ELSE b * Pow(b, e - 1)

\* C1: when run(count) returns, the list holds at most count results, and
\* exactly count results when every job's future finished with a result.
C1_ResultCount ==
    runState = "returned" =>
        /\ Len(results) <= count
        /\ (\A j \in 1..count : fut[j].st = "result") => Len(results) = count

\* a run of two jobs on a pool of two workers returned both results
C1_Witness ==
    /\ runState = "returned" /\ count = 2 /\ concurrency = 2
    /\ Len(results) = 2

\* C2: two jobs of one run that finish with the same non-empty hash (a hash the
\* scheduler did not load at construction) leave exactly one appended record
\* with that hash, and both JobResults are in the returned list.
C2_DedupExactlyOne ==
    runState = "returned" =>
        \A j1, j2 \in 1..count : \A h \in Hashes :
            ( /\ j1 # j2
              /\ fut[j1] = Fut("result", h) /\ fut[j2] = Fut("result", h)
              /\ h \notin LoadExistingHashes(ledger0).hashes )
            => /\ Occurrences(appended, h) = 1
               /\ {JobResult(j1, h), JobResult(j2, h)} \subseteq Range(results)

\* steps of a worker that is acquiring the lock: it enters the section only by
\* being granted the free lock, it gives up only with TimeoutError and only when
\* the lock is held and its timeout has elapsed, and otherwise it keeps polling
C3_LockStep ==
    \A j \in Jobs :
        /\ (pc[j] = "acquire" /\ pc'[j] = "run") => (lockHolder = 0 /\ lockHolder' = j)
        /\ (pc[j] = "acquire" /\ pc'[j] = "failed") =>
              (lockHolder # 0 /\ waited[j] > TimeoutTicks /\ exc'[j] = "TimeoutError")
        /\ (pc[j] = "acquire" /\ lockHolder # 0 /\ waited[j] <= TimeoutTicks) =>
              pc'[j] = "acquire"
        /\ pc'[j] = "run" => pc[j] \in {"acquire", "run"}

C3_OneInside ==
    /\ Cardinality({j \in Jobs : pc[j] = "run"}) <= 1
    /\ \A j \in Jobs : pc[j] = "run" => lockHolder = j

\* C3: at most one worker is inside the guarded section and it holds the lock;
\* a second acquirer polls while the lock is held and either enters once it is
\* granted the free lock or raises TimeoutError after its timeout has elapsed.
C3_MutualExclusion == []C3_OneInside /\ [][C3_LockStep]_vars

\* one worker is inside the section while another has polled at least once
C3_Witness ==
    \E j1, j2 \in Jobs :
        /\ j1 # j2 /\ pc[j1] = "run" /\ lockHolder = j1
        /\ pc[j2] = "acquire" /\ waited[j2] >= 1

\* C4: in with_retry an invocation that failed as bad_request is never followed
\* by another invocation.
C4_ClientErrorNotRetried ==
    \A i \in 1..(Len(rTrace) - 1) : rTrace[i] # "bad_request"

\* C5: the k-th sleep of with_retry lasts BaseDelayMs * backoff^(k-1) plus a
\* jitter of 0..jitter_ms milliseconds; with max_attempts 3, backoff 2 and no
\* jitter, a call that succeeds at its third invocation slept 1 s and 2 s.
C5_BackoffDelays ==
    LET cfg == NormalizeRetryCfg(rCfg) IN
    /\ \A k \in 1..Len(rSleeps) :
          \E jitter \in 0..cfg.jitter_ms :
             rSleeps[k] = BaseDelayMs * Pow(cfg.backoff_factor, k - 1) + jitter
    /\ ( /\ cfg = [max_attempts |-> 3, backoff_factor |-> 2, jitter_ms |-> 0]
         /\ rPc = "returned" /\ Len(rTrace) = 3 )
       => rSleeps = <<1000, 2000>>

C5_Witness ==
    /\ NormalizeRetryCfg(rCfg) = [max_attempts |-> 3, backoff_factor |-> 2, jitter_ms |-> 0]
    /\ rPc = "returned" /\ Len(rTrace) = 3
    /\ rSleeps = <<1000, 2000>>

\* C6: the decision is 1 when hard_serial is set and there is no accelerator
\* memory or too little free memory for the requested concurrency, and
\* min(requested, cores) in every other case.
C6_EffectiveConcurrency ==
    dOut # 0 =>
        dOut = IF dIn.hard_serial
                  /\ (dIn.mem[1] = 0 \/ dIn.mem[2] < dIn.min_free_vram_mb * dIn.concurrency)
               THEN 1
               ELSE Min(dIn.concurrency, dIn.cores)

\* free memory 5 < 3 * 2 with hard_serial: forced to 1 although 2 cores allow 2
C6_Witness ==
    /\ dOut = 1
    /\ dIn.hard_serial /\ dIn.mem = <<8, 5>> /\ dIn.min_free_vram_mb = 3
    /\ dIn.concurrency = 2 /\ dIn.cores >= 2

\* hashes of the lines that are one well-formed record
WellFormedHashes(file) ==
    LET lines == SplitLines(file, << >>)
    IN {lines[i][1].h : i \in {n \in DOMAIN lines : Len(lines[n]) = 1 /\ lines[n][1].k = "obj"}}

\* C7: constructing a scheduler never raises because of a line of the index
\* file, and the loaded set is the set of hashes of the well-formed records.
C7_LoadNeverRaises ==
    /\ schedState # "ctor_raised"
    /\ (schedState = "ready" /\ appended = << >>)
          => completed_hashes = WellFormedHashes(ledger)

\* C8: after records were appended, a fresh scheduler constructed on the same
\* file holds every appended hash, whatever the file held before.
C8_ReloadContainsAppended ==
    schedState \in {"reloaded", "reload_raised"} =>
        /\ schedState = "reloaded"
        /\ Range(appended) \subseteq completed_hashes

\* C9: whenever no worker is between the duplicate test and the end of its
\* index write, completed_hashes is the set a replay of the ledger file yields.
C9_DedupSetIsReplay ==
    (schedState = "ready" /\ \A j \in Jobs : pc[j] \notin {"add", "append"}) =>
        /\ ~LoadExistingHashes(ledger).raised
        /\ completed_hashes = LoadExistingHashes(ledger).hashes

\* C10: no failing step of a job makes run() raise; when run() returns every
\* job was attempted, and a run whose jobs are all exhausted returns no result.
C10_FailureNeverAbortsRun ==
    /\ runState # "raised"
    /\ runState = "returned" =>
          /\ \A j \in 1..count : fut[j].st # "pending"
          /\ (\A j \in 1..count : fut[j].st = "none") => results = << >>

\* the attempts a call through a wrapper is allowed
MaxAttemptsOfCall ==
    IF rPc \in {"idle", "call", "sleep", "returned", "raised"}
      THEN NormalizeRetryCfg(rCfg).max_attempts
      ELSE Max(1, rCfg.max_attempts)

\* C11: with_retry and run_ffmpeg invoke the wrapped operation at most
\* max_attempts times and never after an invocation that succeeded; a call whose
\* last permitted invocation failed raises, and the exception that leaves a
\* wrapper is the error of the last invocation made, never the generic
\* exhaustion error.
C11_AttemptsAndLastError ==
    /\ Len(rTrace) <= MaxAttemptsOfCall
    /\ \A i \in 1..(Len(rTrace) - 1) : rTrace[i] # "ok"
    /\ (Len(rTrace) = MaxAttemptsOfCall /\ rTrace[Len(rTrace)] # "ok")
          => rPc \in {"raised", "ff_raised"}
    /\ rPc \in {"raised", "ff_raised"} =>
          /\ rRaised.invocation = Len(rTrace)
          /\ rRaised.kind \in {"reraised", "exit_code", "not_found", "not_caught"}
          /\ rTrace[Len(rTrace)] # "ok"

\* run_ffmpeg raised the exit-code error of its third invocation after two
\* retried failures
C11_Witness ==
    /\ rPc = "ff_raised" /\ Len(rTrace) = 3 /\ MaxAttemptsOfCall = 3
    /\ rRaised = Raised(3, "exit_code")
    /\ rTrace[1] = "timeout" /\ rTrace[3] = "unknown"

\* C12: a worker that is not inside the guarded section holds no lock, whether
\* it left by job.run returning, by job.run raising or by a timed-out
\* acquisition; when no worker is inside, flock grants the lock to the next
\* acquirer.
C12_LockReleasedOnExit ==
    /\ \A j \in Jobs : pc[j] # "run" => lockHolder # j
    /\ (\A j \in Jobs : pc[j] # "run") => FlockGranted(lockHolder)

\* job.run of one worker raised and the worker that had been polling holds the lock
C12_Witness ==
    \E j1, j2 \in Jobs :
        /\ j1 # j2 /\ pc[j1] = "failed" /\ exc[j1] = "JobError"
        /\ pc[j2] = "run" /\ lockHolder = j2 /\ waited[j2] >= 1

\* the step of a worker whose job returned a non-empty hash that is in the
\* dedup set: nothing is appended, the set is unchanged, the future gets the result
C13_DuplicateStep ==
    \A j \in Jobs :
        ( /\ pc[j] = "check" /\ pc'[j] # "check"
          /\ res[j] # "" /\ res[j] \in completed_hashes )
        => /\ pc'[j] = "done"
           /\ fut'[j] = Fut("result", res[j])
           /\ ledger' = ledger /\ appended' = appended
           /\ completed_hashes' = completed_hashes

\* every result a future holds is in the list run() returns
C13_ResultsReturned ==
    runState = "returned" =>
        \A j \in 1..count : fut[j].st = "result" => JobResult(j, fut[j].h) \in Range(results)

\* C13: a job whose non-empty hash is already in the dedup set (loaded at
\* construction or added in this run) appends no record and leaves the set
\* unchanged, and its JobResult is in the list run() returns.
C13_DuplicateSkipped == []C13_ResultsReturned /\ [][C13_DuplicateStep]_vars

\* the hash was loaded from the index file, nothing was appended, and the
\* duplicate's result was returned
C13_Witness ==
    /\ runState = "returned"
    /\ ledger0 = <<Obj("a"), NL>> /\ ledger = ledger0 /\ appended = << >>
    /\ completed_hashes = {"a"}
    /\ \E j \in 1..count : fut[j] = Fut("result", "a") /\ JobResult(j, "a") \in Range(results)

\* the duplicate test of a worker whose job returned the empty hash fails
C14_EmptyHashStep ==
    \A j \in Jobs : (pc[j] = "check" /\ pc'[j] # "check" /\ res[j] = "") => pc'[j] = "add"

\* as many empty-hash records were appended as jobs finished with an empty-hash result
C14_EmptyHashRecords ==
    Occurrences(appended, "") = Cardinality({j \in Jobs : fut[j] = Fut("result", "")})

\* C14: a job that returned the empty hash is never treated as a duplicate, and
\* every job that finished with an empty-hash result has its own appended
\* record, whatever empty-hash records the index file held at construction.
C14_EmptyHashAlwaysAppended == []C14_EmptyHashRecords /\ [][C14_EmptyHashStep]_vars

\* two empty-hash jobs on an index file that already held an empty-hash record
C14_Witness ==
    /\ ledger0 = <<Obj(""), NL>> /\ "" \in completed_hashes
    /\ appended = <<"", "">>
    /\ ledger = <<Obj(""), NL, Obj(""), NL, Obj(""), NL>>
    /\ \A j \in 1..2 : fut[j] = Fut("result", "")

\* a step of a worker before job.run has returned (job_factory, lock
\* acquisition, job.run raising, the except block) changes neither the index
\* file nor the dedup set; the file changes only by the _append_index of a
\* worker that holds the result job.run returned, and the set only by the add
\* of such a worker
C15_FailedAttemptStep ==
    /\ \A j \in Jobs :
          ( /\ pc[j] \in {"factory", "acquire", "run", "failed"}
            /\ (pc'[j] # pc[j] \/ waited'[j] # waited[j]) )
          => (ledger' = ledger /\ appended' = appended
              /\ completed_hashes' = completed_hashes)
    /\ ledger' # ledger =>
          \E j \in Jobs : /\ pc[j] = "append" /\ res[j] \in RunHashes
                          /\ ledger' = AppendIndex(ledger, res[j])
    /\ (schedState = "ready" /\ completed_hashes' # completed_hashes) =>
          \E j \in Jobs : /\ pc[j] = "add" /\ res[j] \in RunHashes
                          /\ completed_hashes' = completed_hashes \cup {res[j]}

\* C15: a failed attempt (job.run raised or the lock acquisition timed out)
\* leaves the index file and the dedup set unchanged; a record is written only
\* after job.run returned a result.
C15_FailedAttemptWritesNothing == [][C15_FailedAttemptStep]_vars

\* one attempt timed out at the lock, another one raised in job.run, and the
\* index file and the dedup set are as construction left them
C15_Witness ==
    /\ \E j1, j2 \in Jobs :
          /\ pc[j1] = "failed" /\ exc[j1] = "TimeoutError"
          /\ pc[j2] = "failed" /\ exc[j2] = "JobError"
    /\ ledger = ledger0 /\ appended = << >>
    /\ completed_hashes = LoadExistingHashes(ledger0).hashes

\* C16: GenerationJob.run never raises past itself, and a call in which a step
\* failed returns a JobResult with success = FALSE and error set.
C16_RunNeverRaises ==
    /\ jPc # "raised"
    /\ jOut.kind # "raised"

C18_ProbeNeverRaises ==
    /\ gPc # "raised"
    /\ gPc = "returned" =>
          LET parsed == IF gIn.smi.kind = "stdout" THEN ParseNvidiaSmi(gIn.smi.stdout)
                                                   ELSE ValueError
          IN IF parsed.ok THEN gOut.info = parsed.v
             ELSE IF gIn.torch.state = "available"
               THEN gOut.info = Snapshot(gIn.torch.total, gIn.torch.total - gIn.torch.used, "RTX")
             ELSE gOut.info = CpuSnapshot

\* the text of a sequence of records, one line each
RECURSIVE RecordsText(_)
RecordsText(hs) == IF hs = << >> THEN << >> ELSE RecordText(Head(hs)) \o RecordsText(Tail(hs))

\* C19: when the concurrent calls of _append_index have returned, the text they
\* added to the index file is exactly their records, in the order in which the
\* writes completed, each as one complete newline-terminated line.
C19_NoMixedLines ==
    (\A w \in Writers : wPc[w] = "closed") =>
        /\ ledger = ledger0 \o RecordsText(appended)
        /\ Len(appended) = Cardinality(Writers)
        /\ \A h \in HashVals :
              Occurrences(appended, h) = Cardinality({w \in Writers : wRec[w] = h})

\* both writers returned; the record of the second writer came first
C19_Witness ==
    /\ \A w \in Writers : wPc[w] = "closed"
    /\ wRec[1] = "a" /\ wRec[2] = "b"
    /\ ledger0 = <<Obj("a"), NL>>
    /\ ledger = <<Obj("a"), NL, Obj("b"), NL, Obj("a"), NL>>

\* steps of _run_with_retry for one job: a further attempt starts only from the
\* failure of the previous one, no attempt follows a result of job.run, and the
\* future gets None only at the failure of attempt max_retries + 1
C20_AttemptStep ==
    \A j \in Jobs :
        /\ (attempt[j] >= 1 /\ attempt'[j] > attempt[j]) =>
              (pc[j] = "failed" /\ attempt'[j] = attempt[j] + 1)
        /\ res[j] # NoRes => attempt'[j] \in {attempt[j], 0}
        /\ (fut[j].st # "none" /\ fut'[j].st = "none") =>
              (pc[j] = "failed" /\ attempt[j] = max_retries + 1)

\* the attempt counter stays within max_retries + 1; None means exhausted; a
\* job with a result is finished
C20_AttemptBound ==
    \A j \in Jobs :
        /\ attempt[j] <= max_retries + 1
        /\ (pc[j] = "done" /\ fut[j].st = "none") => attempt[j] = max_retries + 1
        /\ fut[j].st = "result" => pc[j] \in {"done", "collected"}

\* C20: _run_with_retry makes at most max_retries + 1 attempts per job, starts
\* an attempt only after the previous one failed, stops at the first attempt
\* that yields a result, and returns None only after max_retries + 1 failed
\* attempts.
C20_RetryLoop == []C20_AttemptBound /\ [][C20_AttemptStep]_vars

\* one job got its result at the second attempt, another one is exhausted
C20_Witness ==
    \E j1, j2 \in Jobs :
        /\ pc[j1] = "done" /\ fut[j1].st = "result" /\ attempt[j1] = 2
        /\ pc[j2] = "done" /\ fut[j2].st = "none" /\ attempt[j2] = max_retries + 1

\* the number of the batch job j belongs to, for the pool size of the run
BatchOf(j) == (j - 1) \div concurrency

C22_TimeoutStep ==
    \A j \in Jobs :
        /\ (pc[j] = "acquire" /\ pc'[j] \notin {"acquire", "run"}) =>
              /\ pc'[j] = "failed" /\ exc'[j] = "TimeoutError"
              /\ res'[j] = NoRes /\ fut'[j] = fut[j]
              /\ appended' = appended /\ completed_hashes' = completed_hashes
        /\ (pc[j] = "failed" /\ pc'[j] # "failed") =>
              /\ exc[j] \in {"TimeoutError", "JobError"}
              /\ IF attempt[j] < max_retries + 1
                   THEN pc'[j] = "factory" /\ attempt'[j] = attempt[j] + 1 /\ fut'[j] = fut[j]
                   ELSE pc'[j] = "done" /\ fut'[j] = Fut("none", NoRes) /\ attempt'[j] = attempt[j]

\* C22: a lock-acquisition timeout is handled like a failure of job.run: the
\* attempt has failed, its cooldown follows and the job is attempted again
\* while attempts remain; the timeout never ends a future with an exception
\* and never yields a result.
C22_TimeoutIsFailedAttempt ==
    /\ [](\A j \in Jobs :
            /\ exc[j] = "TimeoutError" => (pc[j] = "failed" /\ res[j] = NoRes /\ lockHolder # j)
            /\ (pc[j] = "done" /\ fut[j].st = "exc") => exc[j] \in {"FactoryError", "OSError"})
    /\ [][C22_TimeoutStep]_vars

\* the second attempt of a job timed out on the lock that the other job holds
C22_Witness ==
    \E j1, j2 \in Jobs :
        /\ pc[j1] = "failed" /\ exc[j1] = "TimeoutError" /\ attempt[j1] = 2
        /\ pc[j2] = "run" /\ lockHolder = j2

\* C23: the cooldown sleep happens between consecutive attempts of one job: a
\* job whose worker is in its n-th attempt, or has finished with it, has slept
\* n - 1 cooldowns, one after each failed attempt that another attempt
\* followed, and none after its final attempt or after a successful one.
C23_CooldownBetweenAttempts ==
    \A j \in Jobs : attempt[j] >= 1 => cooldowns[j] = attempt[j] - 1

\* C24: the lock is held only while a backend generation step of job.run
\* runs: a worker that is sampling, post-processing, moving the file, looking
\* for the cover, hashing or uploading does not hold the lock.
C24_LockOnlyAroundBackend ==
    \A w \in SectionWorkers :
        (InJobRun(w) /\ sPc[w] \notin BackendSteps) => sHolder # w

\* C25: in both wrappers a failure classified as unknown is followed by
\* another invocation whenever attempts remain (in run_ffmpeg: with retry
\* enabled); the wrapper never raises on such a failure.
C25_UnknownRetried ==
    \A i \in 1..Len(rTrace) :
        rTrace[i] = "unknown" =>
            /\ (rPc \in {"call", "sleep", "returned", "raised"}
                  /\ i < NormalizeRetryCfg(rCfg).max_attempts)
                  => ~(i = Len(rTrace) /\ rPc = "raised")
            /\ (rPc \in {"ff_call", "ff_sleep", "ff_returned", "ff_raised"}
                  /\ NormalizeFfmpegCfg(rCfg).enabled
                  /\ i < FfmpegAttempts(NormalizeFfmpegCfg(rCfg)))
                  => ~(i = Len(rTrace) /\ rPc = "ff_raised")

\* the start events of an event trace, in order
StartsOf(events) == SelectSeq(events, LAMBDA e : e.type = "start")

\* the wrapper has returned or raised
WrapperDone == rPc \in {"returned", "raised", "ff_returned", "ff_raised"}

\* C26: the event trace of a call through with_retry or run_ffmpeg is well
\* formed: every start event is followed by the success or the fail event of
\* its invocation; a retry event follows a fail event exactly when another
\* invocation follows; the trace of a finished call ends with a success event
\* or with a fail event; and the start events carry the attempt numbers
\* 1, 2, ..., k with k <= max_attempts.
C26_EventTraceWellFormed ==
    LET n == Len(rEvents)
    IN /\ \A i \in 1..n :
            /\ rEvents[i].type = "start" =>
                  /\ i < n
                  /\ rEvents[i + 1].type \in {"success", "fail"}
                  /\ rEvents[i + 1].attempt = rEvents[i].attempt
            /\ rEvents[i].type \in {"success", "fail"} =>
                  (i > 1 /\ rEvents[i - 1].type = "start")
            /\ rEvents[i].type = "success" => (i = n /\ rPc \in {"returned", "ff_returned"})
            /\ rEvents[i].type = "fail" =>
                  IF i < n THEN rEvents[i + 1].type = "retry" ELSE rPc \in {"raised", "ff_raised"}
            /\ rEvents[i].type = "retry" =>
                  /\ i > 1 /\ rEvents[i - 1].type = "fail"
                  /\ IF i < n THEN rEvents[i + 1].type = "start"
                              ELSE rPc \in {"sleep", "call", "ff_sleep", "ff_call"}
       /\ WrapperDone => (n > 0 /\ rEvents[n].type \in {"success", "fail"})
       /\ \A k \in 1..Len(StartsOf(rEvents)) : StartsOf(rEvents)[k].attempt = k
       /\ Len(StartsOf(rEvents)) <= MaxAttemptsOfCall

\* C27: the size of the worker pool decided by run() is at least 1 and at most
\* min(max(1, configured concurrency), max(1, detected cores)), also for a
\* configured concurrency or a detected core count that is zero or negative.
C27_PoolSizeBounds ==
    dOut # 0 =>
        /\ 1 <= dOut
        /\ dOut <= Min(Max(1, dIn.concurrency), Max(1, dIn.cores))

\* a decision for a configured concurrency of 0 and a core count of -1, with
\* enough memory for the non-serial branch
C27_Witness ==
    /\ dOut = 1 /\ dIn.concurrency = 0 /\ dIn.cores = -1
    /\ ~dIn.hard_serial

\* C28: after an invocation that ended with a non-zero exit code run_ffmpeg
\* invokes the command again if and only if retry is enabled, the attempt
\* number is below max_attempts and the exit code is listed or the category is
\* timeout, resource_busy, broken_pipe or io_error; otherwise it raises at
\* once; and with retry disabled the command is invoked exactly once.
C28_RetryRule ==
    rPc \in {"ff_call", "ff_sleep", "ff_returned", "ff_raised"} =>
        LET cfg == NormalizeFfmpegCfg(rCfg)
        IN /\ \A i \in 1..Len(rTrace) :
                  rCodes[i] \notin {0, -1} =>
                      IF /\ cfg.enabled
                         /\ i < cfg.max_attempts
                         /\ \/ rCodes[i] \in cfg.retryable_exit_codes
                            \/ rTrace[i] \in {"timeout", "resource_busy", "broken_pipe", "io_error"}
                        THEN i < Len(rTrace) \/ rPc \in {"ff_sleep", "ff_call"}
                        ELSE i = Len(rTrace) /\ rPc = "ff_raised" /\ rRaised = Raised(i, "exit_code")
           /\ ~cfg.enabled =>
                  /\ Len(rTrace) <= 1 /\ rAttempt <= 1
                  /\ rPc \in {"ff_returned", "ff_raised"} => Len(rTrace) = 1

\* retry disabled with max_attempts = 3 and exit code 1 listed: a timed-out
\* command was invoked once and run_ffmpeg raised
C28_Witness ==
    /\ rPc = "ff_raised" /\ ~rCfg.enabled /\ rCfg.max_attempts = 3
    /\ rCfg.retryable_exit_codes = {1}
    /\ rTrace = <<"timeout">> /\ rCodes = <<1>>

\* C29: a call of run(count) that has ended made at most max_retries + 1
\* attempts for each of its jobs, count * (max_retries + 1) in total, and every
\* requested job has either its result in the list or is exhausted.
C29_EveryJobAccounted ==
    /\ \A j \in Jobs : attempt[j] <= max_retries + 1
    /\ runState \in {"returned", "raised"} =>
          \A j \in 1..count :
              \/ fut[j].st = "none"
              \/ fut[j].st = "result" /\ JobResult(j, fut[j].h) \in Range(results)

\* C30 (steps): a worker that leaves the polling loop while no other worker is
\* inside job.run, whatever else the others do, leaves it with the lock
C30_AcquireStep ==
    \A j \in Jobs :
        ( /\ pc[j] = "acquire" /\ pc'[j] # "acquire"
          /\ \A k \in Jobs \ {j} : pc[k] # "run" )
        => (pc'[j] = "run" /\ lockHolder' = j)

\* C30: a worker holds the lock only for the duration of job.run: never in
\* the cooldown sleep after a failed attempt, never while it tests the dedup
\* set, adds the hash or appends to the index; so a worker can acquire the
\* lock while another worker of the batch cools down.
C30_LockOnlyDuringJobRun ==
    /\ [](/\ \A j \in Jobs :
                pc[j] \in {"failed", "check", "add", "append", "done"} => lockHolder # j
          /\ lockHolder # 0 => pc[lockHolder] = "run")
    /\ [][C30_AcquireStep]_vars

\* one worker is in the cooldown after its job.run raised and the other,
\* granted the lock at its first try, is inside job.run
C30_Witness ==
    \E j1, j2 \in Jobs :
        /\ pc[j1] = "failed" /\ exc[j1] = "JobError" /\ pc[j2] = "run"
        /\ lockHolder = j2 /\ waited[j2] = 0

====
